---- MODULE Spec2Model ----
(***************************************************************************)
(* CombinedAnimation = NurseAssessmentAnimation (top) + bridge file run +   *)
(* DoctorProcessAnimation (bottom), as one React component tree.            *)
(*                                                                          *)
(* Time is counted in units of 300 ms, so the Nurse timeline (dur = 6000   *)
(* ms) is 20 units long and `step` is kept as the numerator of step/dur:   *)
(* step = 7 is 0.35, step = 20 is 1.  Progress values returned by mapRange *)
(* are kept as numerators over ProgOne; bridgeProg as a numerator over      *)
(* BridgeOne.                                                               *)
(*                                                                          *)
(* A pending requestAnimationFrame callback is a record of rafCallbacks     *)
(* that carries the variables its closure captured.  The clock is relative: *)
(* `el` of a callback is performance.now() minus the closure's `last`       *)
(* (Nurse) or `t0` (bridge); the clock is assumed monotonic.                *)
(*                                                                          *)
(* Every action is an event followed by React's render/commit passes, run   *)
(* until no state changes (Flush).  Effects read the values of the render   *)
(* they were created in (r) and queue their updates on the accumulated      *)
(* state (acc).                                                             *)
(***************************************************************************)
EXTENDS Integers, FiniteSets, Sequences, TLC

VARIABLES
  phase,               \* "mounted" | "unmounted"
  externalRestartKey,  \* CombinedAnimation prop
  bridgeDurationMs,    \* CombinedAnimation prop, in time units
  isPlaying, speed, step, firedComplete,       \* NurseAssessmentAnimation state
  nurseRaf,            \* `raf` of the Nurse effect closure now mounted
  nurseDeps,           \* deps of the Nurse RAF effect at its last run
  bridgeRun, bridgeProg, bottomStartedOnce,    \* CombinedAnimation state
  keyDeps,             \* deps of the externalRestartKey effect at its last run
  bridgeRaf,           \* `raf` of the bridge effect closure now mounted
  bridgeDeps,          \* deps of the bridge RAF effect at its last run
  runId, noteVisible,  \* DoctorProcessAnimation state
  prevStartRef,        \* usePrevious: ref.current
  doctorDeps,          \* deps of the Doctor run-start effect at its last run
  rafCallbacks         \* the browser's map of pending animation frame callbacks

vars == <<phase, externalRestartKey, bridgeDurationMs, isPlaying, speed, step,
          firedComplete, nurseRaf, nurseDeps, bridgeRun, bridgeProg,
          bottomStartedOnce, keyDeps, bridgeRaf, bridgeDeps, runId, noteVisible,
          prevStartRef, doctorDeps, rafCallbacks>>

----------------------------------------------------------------------------
(* Bounds and scales *)

MaxDt == 2          \* a frame arrives at most MaxDt time units after the last one
MaxBridgeRun == 2   \* externalRestartKey changes stop once bridgeRun reaches this
MaxIds == 8         \* animation frame handles available

dur == 20           \* const dur = 6000 (ms), in 300 ms units
ProgOne == 1260     \* the value 1 of clamp01/mapRange
BridgeOne == 4      \* the value 1 of bridgeProg
DefaultBridgeDuration == 4   \* bridgeDurationMs = 1200 (ms), in 300 ms units

Undefined == 0 - 1  \* an optional prop that is not passed

KeyValues == {Undefined, 1, 2}
DurationValues == {2, DefaultBridgeDuration}
SpeedValues == {1, 2}

Min(a, b) == IF a <= b THEN a ELSE b
Max(a, b) == IF a >= b THEN a ELSE b

----------------------------------------------------------------------------
(* The state as one record, so that handlers compose as functions *)

Cur ==
  [phase |-> phase, externalRestartKey |-> externalRestartKey,
   bridgeDurationMs |-> bridgeDurationMs, isPlaying |-> isPlaying,
   speed |-> speed, step |-> step, firedComplete |-> firedComplete,
   nurseRaf |-> nurseRaf, nurseDeps |-> nurseDeps, bridgeRun |-> bridgeRun,
   bridgeProg |-> bridgeProg, bottomStartedOnce |-> bottomStartedOnce,
   keyDeps |-> keyDeps, bridgeRaf |-> bridgeRaf, bridgeDeps |-> bridgeDeps,
   runId |-> runId, noteVisible |-> noteVisible, prevStartRef |-> prevStartRef,
   doctorDeps |-> doctorDeps, rafCallbacks |-> rafCallbacks]

Becomes(s) ==
  /\ phase' = s.phase
  /\ externalRestartKey' = s.externalRestartKey
  /\ bridgeDurationMs' = s.bridgeDurationMs
  /\ isPlaying' = s.isPlaying
  /\ speed' = s.speed
  /\ step' = s.step
  /\ firedComplete' = s.firedComplete
  /\ nurseRaf' = s.nurseRaf
  /\ nurseDeps' = s.nurseDeps
  /\ bridgeRun' = s.bridgeRun
  /\ bridgeProg' = s.bridgeProg
  /\ bottomStartedOnce' = s.bottomStartedOnce
  /\ keyDeps' = s.keyDeps
  /\ bridgeRaf' = s.bridgeRaf
  /\ bridgeDeps' = s.bridgeDeps
  /\ runId' = s.runId
  /\ noteVisible' = s.noteVisible
  /\ prevStartRef' = s.prevStartRef
  /\ doctorDeps' = s.doctorDeps
  /\ rafCallbacks' = s.rafCallbacks

----------------------------------------------------------------------------
(* window.requestAnimationFrame / cancelAnimationFrame *)

\* Handles are never reused by the browser and only their equality is
\* observed, so a new handle is any one that is neither pending nor held in a
\* `raf` variable.  `over` is the `raf` the new handle is about to overwrite
\* ("none" when the requesting closure is not the mounted effect's).
NewHandle(s, over) ==
  LET held == {IF over = "nurse" THEN 0 ELSE s.nurseRaf,
               IF over = "bridge" THEN 0 ELSE s.bridgeRaf}
      used == {c.id : c \in s.rafCallbacks} \cup held
  IN  CHOOSE i \in 1..MaxIds : i \notin used /\ \A j \in 1..(i - 1) : j \in used

NurseCallback(id, live, playing, spd) ==
  [id |-> id, owner |-> "nurse", live |-> live, isPlaying |-> playing,
   speed |-> spd, dur |-> 0, el |-> 0]

BridgeCallback(id, live, d, el) ==
  [id |-> id, owner |-> "bridge", live |-> live, isPlaying |-> FALSE,
   speed |-> 0, dur |-> d, el |-> el]

requestAnimationFrame(s, cb) ==
  [s EXCEPT !.rafCallbacks = @ \cup {cb}]

cancelAnimationFrame(s, handle) ==
  [s EXCEPT !.rafCallbacks = {c \in @ : c.id # handle}]

\* The closure that owns these callbacks has been cleaned up: its `cancelled`
\* is true (bridge) and its `raf` is no longer the mounted effect's.
Orphan(s, who) ==
  [s EXCEPT !.rafCallbacks =
     {IF c.owner = who THEN [c EXCEPT !.live = FALSE] ELSE c : c \in @}]

----------------------------------------------------------------------------
(* NurseAssessmentAnimation *)

clamp01(n) == Min(ProgOne, Max(0, n))

\* v, a, b are numerators over dur; the result is a numerator over ProgOne
mapRange(v, a, b) ==
  IF v <= a THEN 0
  ELSE IF v >= b THEN ProgOne
  ELSE ((v - a) * ProgOne) \div (b - a)

\* a fraction of the timeline written in hundredths, as a numerator over dur
At(hundredths) == (hundredths * dur) \div 100

\* Timeline slices
writeProg == clamp01(mapRange(step, At(0), At(35)))
arrowProg == clamp01(mapRange(step, At(35), At(55)))
fileProg_late == clamp01(mapRange(step, At(35), At(95)))
fileProg == clamp01(mapRange(step, At(35), At(80)))

showVitals == step >= At(60)
showPain == step >= At(75)
showNotes == step >= At(90)

\* setStep(s => { let ns = s + (dt * speed) / dur; if (ns >= 1) ns = 1; return ns })
StepUpdater(s, dt, spd) ==
  LET ns == s + dt * spd IN IF ns >= dur THEN dur ELSE ns

\* return () => cancelAnimationFrame(raf)
NurseRafCleanup_NoCancel(acc) == Orphan(acc, "nurse")
NurseRafCleanup(acc) == Orphan(cancelAnimationFrame(acc, acc.nurseRaf), "nurse")

\* useEffect(() => { let raf = 0; let last = performance.now(); ...
\*   raf = requestAnimationFrame(tick); return cleanup }, [isPlaying, speed])
NurseRafEffect(acc, r) ==
  LET deps == <<r.isPlaying, r.speed>> IN
  IF deps = r.nurseDeps THEN acc
  ELSE LET a1 == IF r.nurseDeps = <<>> THEN acc ELSE NurseRafCleanup(acc)
           id == NewHandle(a1, "nurse")
           a2 == requestAnimationFrame(a1, NurseCallback(id, TRUE, r.isPlaying, r.speed))
       IN  [a2 EXCEPT !.nurseRaf = id, !.nurseDeps = deps]

----------------------------------------------------------------------------
(* CombinedAnimation *)

\* setBridgeProg(0); setBridgeRun((r) => r + 1)
triggerFileRun_NoReset(acc) == [acc EXCEPT !.bridgeRun = @ + 1]
triggerFileRun(acc) ==
  [acc EXCEPT !.bridgeProg = 0, !.bridgeRun = @ + 1]

\* triggerFileRun(); if (!bottomStartedOnce) setBottomStartedOnce(true)
handleTopComplete_FileOnly(acc, r) == triggerFileRun(acc)
handleTopComplete(acc, r) ==
  LET a1 == triggerFileRun(acc) IN
  IF ~r.bottomStartedOnce THEN [a1 EXCEPT !.bottomStartedOnce = TRUE] ELSE a1

\* Nurse: if (!firedComplete && step >= 1) { setFiredComplete(true); onComplete?.() }
\* deps [step, firedComplete, onComplete].  The body acts only when its guard
\* holds, and the guard reads nothing but its deps, so evaluating it on every
\* pass equals evaluating it when a dep changed.
NurseCompleteEffect(acc, r) ==
  IF ~r.firedComplete /\ r.step >= dur
  THEN handleTopComplete([acc EXCEPT !.firedComplete = TRUE], r)
  ELSE acc

\* useEffect(() => { if (externalRestartKey !== undefined) triggerFileRun() },
\*           [externalRestartKey])
ExternalRestartEffect(acc, r) ==
  IF <<r.externalRestartKey>> = r.keyDeps THEN acc
  ELSE LET a1 == [acc EXCEPT !.keyDeps = <<r.externalRestartKey>>]
       IN  IF r.externalRestartKey # Undefined THEN triggerFileRun(a1) ELSE a1

\* return () => { cancelled = true; if (raf) cancelAnimationFrame(raf) }
BridgeRafCleanup(acc) ==
  Orphan(IF acc.bridgeRaf # 0 THEN cancelAnimationFrame(acc, acc.bridgeRaf) ELSE acc,
         "bridge")

\* the effect of the last run returned a cleanup unless it returned early
BridgeCleanupRegistered(r) == r.bridgeDeps # <<>> /\ r.bridgeDeps[1] # 0

\* useEffect(() => { if (bridgeRun === 0) return; let cancelled = false;
\*   let raf = 0; const t0 = performance.now(); ...
\*   raf = requestAnimationFrame(tick); return cleanup }, [bridgeRun, bridgeDurationMs])
BridgeRafEffect(acc, r) ==
  LET deps == <<r.bridgeRun, r.bridgeDurationMs>> IN
  IF deps = r.bridgeDeps THEN acc
  ELSE LET a1 == IF BridgeCleanupRegistered(r) THEN BridgeRafCleanup(acc) ELSE acc
           a2 == [a1 EXCEPT !.bridgeDeps = deps]
           id == NewHandle(a2, "bridge")
       IN  IF r.bridgeRun = 0 THEN a2
           ELSE [requestAnimationFrame(a2, BridgeCallback(id, TRUE, r.bridgeDurationMs, 0))
                   EXCEPT !.bridgeRaf = id]

----------------------------------------------------------------------------
(* DoctorProcessAnimation, as CombinedAnimation renders it *)

\* start={bottomStartedOnce}
start(r) == r.bottomStartedOnce

\* resetToken is not passed (the prop is commented out)
resetToken_BridgeRun(r) == r.bridgeRun
resetToken(r) == Undefined

\* {start && (<motion.div ...> doctor icon, "Post Diagnosis", steps </motion.div>)}
DoctorContentRendered(r) == start(r)

\* const prevStart = usePrevious(start): the render reads ref.current, the
\* effect then stores the rendered value
usePrevious(r) == r.prevStartRef

\* if ((prevStart === false && start === true) || resetToken !== undefined) {
\*   setRunId((r) => r + 1); setNoteVisible(false) }
\* deps [start, resetToken, prevStart].  usePrevious's own effect
\* (ref.current = value), declared first, runs before it in the same commit.
RunStartEffect(acc, r) ==
  LET prevStart == usePrevious(r)
      deps == <<start(r), resetToken(r), prevStart>>
      a1 == [acc EXCEPT !.prevStartRef = start(r)]
  IN  IF deps = r.doctorDeps THEN a1
      ELSE LET a2 == [a1 EXCEPT !.doctorDeps = deps]
           IN  IF (prevStart = FALSE /\ start(r) = TRUE) \/ resetToken(r) # Undefined
               THEN [a2 EXCEPT !.runId = @ + 1, !.noteVisible = FALSE]
               ELSE a2

----------------------------------------------------------------------------
(* React: one render and commit of the tree; children's effects run first *)

RenderCommit(r) ==
  LET a1 == NurseRafEffect(r, r)
      a2 == NurseCompleteEffect(a1, r)
      a3 == RunStartEffect(a2, r)
      a4 == ExternalRestartEffect(a3, r)
  IN  BridgeRafEffect(a4, r)

\* Passes repeat until a render changes nothing.  (The pass result is bound
\* through a singleton set so that it is computed once.)
RECURSIVE Flush(_)
Flush(s) ==
  IF s.phase # "mounted" THEN s
  ELSE CHOOSE u \in {IF t = s THEN s ELSE Flush(t) : t \in {RenderCommit(s)}} : TRUE

\* an event handler's updates, then React's passes
Handle(s) == \E v \in {s} : \E u \in {Flush(v)} : Becomes(u)

----------------------------------------------------------------------------
(* Frame callbacks *)

\* Nurse: const tick = (now) => { const dt = now - last; last = now;
\*   if (isPlaying) setStep(...); raf = requestAnimationFrame(tick) }
NurseTickBody(s, c) ==
  LET s0 == [s EXCEPT !.rafCallbacks = @ \ {c}]
      s1 == IF c.isPlaying /\ s.phase = "mounted"
            THEN [s0 EXCEPT !.step = StepUpdater(@, c.el, c.speed)]
            ELSE s0
      id == NewHandle(s1, IF c.live THEN "nurse" ELSE "none")
      s2 == requestAnimationFrame(s1, NurseCallback(id, c.live, c.isPlaying, c.speed))
  IN  IF c.live THEN [s2 EXCEPT !.nurseRaf = id] ELSE s2

\* Bridge: const tick = (now) => { if (cancelled) return;
\*   const p = Math.min(1, (now - t0) / bridgeDurationMs); setBridgeProg(p);
\*   if (p < 1) raf = requestAnimationFrame(tick) }
BridgeTickBody(s, c) ==
  LET s0 == [s EXCEPT !.rafCallbacks = @ \ {c}]
      p  == Min(BridgeOne, (c.el * BridgeOne) \div c.dur)
      s1 == [s0 EXCEPT !.bridgeProg = p]
      id == NewHandle(s1, "bridge")
  IN  IF ~c.live THEN s0
      ELSE IF p < BridgeOne
           THEN [requestAnimationFrame(s1, BridgeCallback(id, TRUE, c.dur, c.el))
                   EXCEPT !.bridgeRaf = id]
           ELSE s1

\* the clock moves on by d: every closure's now - last / now - t0 grows.
\* Past its duration the bridge's elapsed time gives p = 1 whatever it is.
Elapse(c, d) ==
  IF c.owner = "bridge" THEN [c EXCEPT !.el = Min(c.dur, @ + d)]
  ELSE [c EXCEPT !.el = @ + d]

----------------------------------------------------------------------------
(* Mount *)

Fresh(k, d) ==
  [phase |-> "mounted", externalRestartKey |-> k, bridgeDurationMs |-> d,
   isPlaying |-> TRUE, speed |-> 1, step |-> 0, firedComplete |-> FALSE,
   nurseRaf |-> 0, nurseDeps |-> <<>>, bridgeRun |-> 0, bridgeProg |-> 0,
   bottomStartedOnce |-> FALSE, keyDeps |-> <<>>, bridgeRaf |-> 0,
   bridgeDeps |-> <<>>, runId |-> 0, noteVisible |-> FALSE,
   prevStartRef |-> FALSE, doctorDeps |-> <<>>, rafCallbacks |-> {}]

Is(s) ==
  /\ phase = s.phase
  /\ externalRestartKey = s.externalRestartKey
  /\ bridgeDurationMs = s.bridgeDurationMs
  /\ isPlaying = s.isPlaying
  /\ speed = s.speed
  /\ step = s.step
  /\ firedComplete = s.firedComplete
  /\ nurseRaf = s.nurseRaf
  /\ nurseDeps = s.nurseDeps
  /\ bridgeRun = s.bridgeRun
  /\ bridgeProg = s.bridgeProg
  /\ bottomStartedOnce = s.bottomStartedOnce
  /\ keyDeps = s.keyDeps
  /\ bridgeRaf = s.bridgeRaf
  /\ bridgeDeps = s.bridgeDeps
  /\ runId = s.runId
  /\ noteVisible = s.noteVisible
  /\ prevStartRef = s.prevStartRef
  /\ doctorDeps = s.doctorDeps
  /\ rafCallbacks = s.rafCallbacks

\* the tree after its first render and commit
Init == \E k \in KeyValues, d \in DurationValues : Is(Flush(Fresh(k, d)))

----------------------------------------------------------------------------
(* Actions *)

NurseTick ==
  \E c \in rafCallbacks :
    /\ c.owner = "nurse"
    /\ Handle(NurseTickBody(Cur, c))

BridgeTick ==
  \E c \in rafCallbacks :
    /\ c.owner = "bridge"
    /\ Handle(BridgeTickBody(Cur, c))

AdvanceTime ==
  \E d \in 1..MaxDt :
    /\ rafCallbacks # {}
    /\ \A c \in rafCallbacks : c.owner = "nurse" => c.el + d <= MaxDt
    /\ rafCallbacks' = {Elapse(c, d) : c \in rafCallbacks}
    /\ rafCallbacks' # rafCallbacks
    /\ UNCHANGED <<phase, externalRestartKey, bridgeDurationMs, isPlaying, speed,
                   step, firedComplete, nurseRaf, nurseDeps, bridgeRun, bridgeProg,
                   bottomStartedOnce, keyDeps, bridgeRaf, bridgeDeps, runId,
                   noteVisible, prevStartRef, doctorDeps>>

\* const [isPlaying, setPlaying] = useState(true)
setPlaying ==
  \E b \in BOOLEAN :
    /\ phase = "mounted"
    /\ b # isPlaying
    /\ Handle([Cur EXCEPT !.isPlaying = b])

\* const [speed, setSpeed] = useState(1)
setSpeed ==
  \E v \in SpeedValues :
    /\ phase = "mounted"
    /\ v # speed
    /\ Handle([Cur EXCEPT !.speed = v])

\* the parent re-renders CombinedAnimation with another externalRestartKey
ExternalRestartKeyChange ==
  \E k \in KeyValues :
    /\ phase = "mounted"
    /\ k # externalRestartKey
    /\ bridgeRun < MaxBridgeRun
    /\ Handle([Cur EXCEPT !.externalRestartKey = k])

\* the parent re-renders CombinedAnimation with another bridgeDurationMs
BridgeDurationChange ==
  \E d \in DurationValues :
    /\ phase = "mounted"
    /\ d # bridgeDurationMs
    /\ Handle([Cur EXCEPT !.bridgeDurationMs = d])

\* Doctor: onAnimationComplete={() => setNoteVisible(true)} of the handoff
\* file, which is rendered inside {start && ...} and keyed by runId
HandoffAnimationComplete ==
  /\ phase = "mounted"
  /\ start(Cur)
  /\ ~noteVisible
  /\ Handle([Cur EXCEPT !.noteVisible = TRUE])

\* the tree is removed: every effect's cleanup runs
Unmount ==
  /\ phase = "mounted"
  /\ LET a1 == NurseRafCleanup(Cur)
         a2 == IF BridgeCleanupRegistered(Cur) THEN BridgeRafCleanup(a1) ELSE a1
     IN  Becomes([a2 EXCEPT !.phase = "unmounted"])

Next ==
  \/ NurseTick
  \/ BridgeTick
  \/ AdvanceTime
  \/ ExternalRestartKeyChange
  \/ BridgeDurationChange
  \/ HandoffAnimationComplete
  \/ Unmount

\* The component as shipped: no control calls setPlaying or setSpeed.
Spec == Init /\ [][Next]_vars

\* the browser runs pending frame callbacks and its clock advances
FairSpec ==
  Spec /\ WF_vars(NurseTick) /\ WF_vars(BridgeTick) /\ WF_vars(AdvanceTime)

\* The component with its two setters in use, so that the Nurse RAF effect
\* re-runs on a change of its deps.
ControlNext ==
  \/ Next
  \/ setPlaying
  \/ setSpeed

ControlSpec == Init /\ [][ControlNext]_vars

----------------------------------------------------------------------------
(* Claims *)

\* C1: the first Nurse completion (step reaches 1, onComplete fires) sets
\* bottomStartedOnce, takes the Doctor's start prop from false to true and
\* starts exactly one run (runId 0 -> 1); before it, bottomStartedOnce is
\* false and runId is 0.
C1_FirstCompletionStartsDoctor ==
  /\ [](~firedComplete => (~bottomStartedOnce /\ ~start(Cur) /\ runId = 0))
  /\ [][(~firedComplete /\ firedComplete') =>
          /\ step' = dur
          /\ ~bottomStartedOnce /\ bottomStartedOnce'
          /\ ~prevStartRef /\ prevStartRef'
          /\ runId = 0 /\ runId' = 1]_vars
  /\ [](runId <= 1)

C1_Witness ==
  firedComplete /\ step = dur /\ bottomStartedOnce /\ runId = 1

\* C2: the Doctor pane's content is rendered in every state of the mounted
\* tree, the states before the Nurse completion included.
C2_DoctorVisibleFromStart ==
  phase = "mounted" => DoctorContentRendered(Cur)

C4_RestartLeavesDoctorAlone ==
  /\ [][externalRestartKey' # externalRestartKey =>
          UNCHANGED <<bottomStartedOnce, prevStartRef, runId, noteVisible>>]_vars
  /\ [][bottomStartedOnce =>
          /\ bottomStartedOnce'
          /\ runId' = runId
          /\ (noteVisible => noteVisible')]_vars

C4_Witness ==
  /\ bottomStartedOnce /\ runId = 1 /\ noteVisible
  /\ externalRestartKey = 2 /\ keyDeps = <<2>> /\ bridgeRun = 2

\* C5: each component has at most one pending animation frame callback, and
\* none is left after the unmount.
PendingOf(who) == {c \in rafCallbacks : c.owner = who}

C5_OneFrameLoop ==
  /\ Cardinality(PendingOf("nurse")) <= 1
  /\ Cardinality(PendingOf("bridge")) <= 1
  /\ phase = "unmounted" => rafCallbacks = {}

C5_Witness ==
  /\ phase = "mounted"
  /\ ~isPlaying /\ speed = 2 /\ bridgeRun = 2 /\ bridgeDurationMs = 2
  /\ Cardinality(PendingOf("nurse")) = 1
  /\ Cardinality(PendingOf("bridge")) = 1

\* C6: the arrow and the file start only after the writing is finished,
\* showPain implies showVitals, showNotes implies showPain and fileProg = 1,
\* and no stage flag or progress value goes back.
C6_StagesInOrder ==
  /\ [](/\ (arrowProg > 0 \/ fileProg > 0) => writeProg = ProgOne
        /\ showPain => showVitals
        /\ showNotes => (showPain /\ fileProg = ProgOne))
  /\ [][/\ step' >= step
        /\ writeProg' >= writeProg
        /\ arrowProg' >= arrowProg
        /\ fileProg' >= fileProg
        /\ showVitals => showVitals'
        /\ showPain => showPain'
        /\ showNotes => showNotes']_vars

C6_Witness ==
  /\ showNotes /\ showPain /\ showVitals
  /\ fileProg = ProgOne /\ arrowProg = ProgOne /\ writeProg = ProgOne
  /\ step < dur

====
